---- MODULE Spec2Model ----
(***************************************************************************)
(* Model of the Wheel-of-Fortune solver of Andy/wof_solver3.py, driven as  *)
(* in Andy/wof_solver3_test.py.                                            *)
(*                                                                         *)
(* A Python string is a sequence of one-character strings; a list is a     *)
(* sequence; a set is a set.  The two corpus files are sequences of raw    *)
(* lines (or missing).                                                     *)
(***************************************************************************)
EXTENDS Integers, Sequences, FiniteSets, TLC

VARIABLES words_file, phrases_file, pc, call, result, saved, rec_call, rec_out, rx_call

vars == <<words_file, phrases_file, pc, call, result, saved, rec_call, rec_out, rx_call>>

(***************************************************************************)
(* Bounds of the model.                                                    *)
(***************************************************************************)
\* longest pattern over letters, underscores and spaces
MaxLen == 3
\* longest pattern that also uses lowercase letters and punctuation
MaxOddLen == 2
\* most lines of words.txt
MaxWords == 2
\* most lines of phrases.txt
MaxPhrases == 1

(***************************************************************************)
(* Characters.                                                             *)
(***************************************************************************)
ascii_uppercase ==
  <<"A", "B", "C", "D", "E", "F", "G", "H", "I", "J", "K", "L", "M",
    "N", "O", "P", "Q", "R", "S", "T", "U", "V", "W", "X", "Y", "Z">>

Letters == {ascii_uppercase[i] : i \in 1..Len(ascii_uppercase)}

\* The characters of the model in code-point order (str comparison, ranges
\* of a character class).
CodeOrder ==
  <<" ", "$", "'", "(", "-", ".">> \o ascii_uppercase \o
  <<"[", "]", "^", "_", "a", "t", "x">>

AllChars == {CodeOrder[i] : i \in 1..Len(CodeOrder)}

CodeIndex == [c \in AllChars |-> CHOOSE i \in 1..Len(CodeOrder) : CodeOrder[i] = c]

ord(c) == CodeIndex[c]

\* str.upper() on one character
upper_char(c) ==
  CASE c = "a" -> "A"
    [] c = "t" -> "T"
    [] c = "x" -> "X"
    [] OTHER -> c

\* str.upper()
upper(s) == [i \in 1..Len(s) |-> upper_char(s[i])]

RECURSIVE lstrip(_)
lstrip(s) == IF s # <<>> /\ Head(s) = " " THEN lstrip(Tail(s)) ELSE s

RECURSIVE rstrip(_)
rstrip(s) ==
  IF s # <<>> /\ s[Len(s)] = " " THEN rstrip(SubSeq(s, 1, Len(s) - 1)) ELSE s

\* str.strip()
strip(s) == rstrip(lstrip(s))

\* str.split() without arguments: the maximal runs of non-space characters
RECURSIVE split_from(_, _, _)
split_from(s, cur, acc) ==
  IF s = <<>> THEN (IF cur = <<>> THEN acc ELSE Append(acc, cur))
  ELSE IF Head(s) = " "
       THEN split_from(Tail(s), <<>>, IF cur = <<>> THEN acc ELSE Append(acc, cur))
       ELSE split_from(Tail(s), Append(cur, Head(s)), acc)

split(s) == split_from(s, <<>>, <<>>)

\* " ".join(ws)
RECURSIVE join(_)
join(ws) ==
  IF ws = <<>> THEN <<>>
  ELSE IF Len(ws) = 1 THEN ws[1]
  ELSE ws[1] \o <<" ">> \o join(Tail(ws))

\* s < t for two strings (lexicographic by code point)
RECURSIVE str_lt(_, _)
str_lt(s, t) ==
  IF t = <<>> THEN FALSE
  ELSE IF s = <<>> THEN TRUE
  ELSE IF Head(s) = Head(t) THEN str_lt(Tail(s), Tail(t))
  ELSE ord(Head(s)) < ord(Head(t))

\* sorted(S) for a set of strings
RECURSIVE sorted(_)
sorted(S) ==
  IF S = {} THEN <<>>
  ELSE LET m == CHOOSE x \in S : \A y \in S \ {x} : str_lt(x, y)
       IN <<m>> \o sorted(S \ {m})

\* set(xs) for a list
set_of(xs) == {xs[i] : i \in 1..Len(xs)}

(***************************************************************************)
(* LOADING DATA                                                            *)
(***************************************************************************)
Missing == [exists |-> FALSE, lines |-> <<>>]

RECURSIVE load_lines(_)
load_lines(lines) ==
  IF lines = <<>> THEN <<>>
  ELSE IF strip(Head(lines)) # <<>>
       THEN <<upper(strip(Head(lines)))>> \o load_lines(Tail(lines))
       ELSE load_lines(Tail(lines))

load_list(file) == IF ~file.exists THEN <<>> ELSE load_lines(file.lines)

(***************************************************************************)
(* PATTERN UTILITIES                                                       *)
(***************************************************************************)
\* extract_attempted_letters that keeps the supplied letters as they are
extract_attempted_letters_raw(pattern, attempted) ==
  {upper(pattern)[i] : i \in {j \in 1..Len(pattern) : upper(pattern)[j] \in Letters}}
    \cup (IF attempted.given THEN {attempted.items[i] : i \in 1..Len(attempted.items)} ELSE {})

\* attempted: [given |-> FALSE] is None, otherwise items is the list passed
extract_attempted_letters(pattern, attempted) ==
  LET given_attempted ==
        IF attempted.given /\ attempted.items # <<>>
        THEN {upper_char(attempted.items[i]) : i \in 1..Len(attempted.items)}
        ELSE {}
      pattern_attempted ==
        {upper(pattern)[i] : i \in {j \in 1..Len(pattern) : upper(pattern)[j] \in Letters}}
  IN pattern_attempted \cup given_attempted

\* "".join(S): the members in some order (here: code-point order)
RECURSIVE join_set(_)
join_set(S) ==
  IF S = {} THEN <<>>
  ELSE LET m == CHOOSE x \in S : \A y \in S : ord(x) <= ord(y)
       IN <<m>> \o join_set(S \ {m})

RECURSIVE regex_body(_, _)
regex_body(pattern, forbidden_letters) ==
  IF pattern = <<>> THEN <<>>
  ELSE LET ch == Head(pattern)
           piece == IF ch = "_"
                    THEN IF forbidden_letters # <<>>
                         THEN <<"[", "A", "-", "Z", "^">> \o forbidden_letters \o <<"]">>
                         ELSE <<"[", "A", "-", "Z", "]">>
                    ELSE <<ch>>
       IN piece \o regex_body(Tail(pattern), forbidden_letters)

\* the regular expression text
pattern_to_regex(pattern, forbidden_letters) ==
  <<"^">> \o regex_body(pattern, join_set(forbidden_letters)) \o <<"$">>

(***************************************************************************)
(* The part of Python's re that the solver's expressions use: anchors,     *)
(* literals, ".", character classes with ranges, and the error for an      *)
(* unterminated group.  No character of the model is a newline, a          *)
(* quantifier, a backslash or ")".                                         *)
(***************************************************************************)
\* the members of a character class, from the text between "[" and "]"
RECURSIVE class_items(_)
class_items(body) ==
  IF body = <<>> THEN {}
  ELSE IF Len(body) >= 3 /\ body[2] = "-"
       THEN {c \in AllChars : ord(body[1]) <= ord(c) /\ ord(c) <= ord(body[3])}
            \cup class_items(SubSeq(body, 4, Len(body)))
       ELSE {body[1]} \cup class_items(Tail(body))

\* index of the first "]" of rx at or after i, 0 if there is none
RECURSIVE class_end(_, _)
class_end(rx, i) ==
  IF i > Len(rx) THEN 0
  ELSE IF rx[i] = "]" THEN i
  ELSE class_end(rx, i + 1)

RECURSIVE parse_regex(_, _, _)
parse_regex(rx, i, toks) ==
  IF i > Len(rx) THEN [ok |-> TRUE, toks |-> toks]
  ELSE LET ch == rx[i] IN
    CASE ch = "(" -> [ok |-> FALSE, toks |-> <<>>]
      [] ch = "^" -> parse_regex(rx, i + 1, Append(toks, [kind |-> "bol", chars |-> {}]))
      [] ch = "$" -> parse_regex(rx, i + 1, Append(toks, [kind |-> "eol", chars |-> {}]))
      [] ch = "." -> parse_regex(rx, i + 1, Append(toks, [kind |-> "any", chars |-> {}]))
      [] ch = "[" ->
           LET e == class_end(rx, i + 2)
               body == SubSeq(rx, i + 1, e - 1)
           IN IF e = 0 THEN [ok |-> FALSE, toks |-> <<>>]
              ELSE IF body[1] = "^"
              THEN parse_regex(rx, e + 1,
                     Append(toks, [kind |-> "in", chars |-> AllChars \ class_items(Tail(body))]))
              ELSE parse_regex(rx, e + 1,
                     Append(toks, [kind |-> "in", chars |-> class_items(body)]))
      [] OTHER -> parse_regex(rx, i + 1, Append(toks, [kind |-> "in", chars |-> {ch}]))

\* re.compile(rx): ok = FALSE stands for re.error
re_compile(rx) == parse_regex(rx, 1, <<>>)

RECURSIVE match_at(_, _, _, _)
match_at(toks, k, s, pos) ==
  IF k > Len(toks) THEN TRUE
  ELSE LET t == toks[k] IN
    CASE t.kind = "bol" -> pos = 1 /\ match_at(toks, k + 1, s, pos)
      [] t.kind = "eol" -> pos = Len(s) + 1 /\ match_at(toks, k + 1, s, pos)
      [] t.kind = "any" -> pos <= Len(s) /\ match_at(toks, k + 1, s, pos + 1)
      [] OTHER -> pos <= Len(s) /\ s[pos] \in t.chars /\ match_at(toks, k + 1, s, pos + 1)

\* rx.match(s) is not None, for a compiled rx
re_match(rx, s) == match_at(rx.toks, 1, s, 1)

(***************************************************************************)
(* DICTIONARY MATCHING                                                     *)
(***************************************************************************)
\* the loop of lines 84-87 / 109-112: no underscore position holds a
\* forbidden letter; zip stops at the shorter string
\* forbidden_free that checks nothing
forbidden_free_unchecked(pattern, p, forbidden_letters) == TRUE

forbidden_free(pattern, p, forbidden_letters) ==
  \A i \in 1..(IF Len(pattern) < Len(p) THEN Len(pattern) ELSE Len(p)) :
    ~(pattern[i] = "_" /\ p[i] \in forbidden_letters)

RECURSIVE phrase_filter(_, _, _, _)
phrase_filter(rx, pattern, phrases, forbidden_letters) ==
  IF phrases = <<>> THEN <<>>
  ELSE LET p == Head(phrases)
           rest == phrase_filter(rx, pattern, Tail(phrases), forbidden_letters)
       IN IF ~re_match(rx, p) THEN rest
          ELSE IF forbidden_free(pattern, p, forbidden_letters) THEN <<p>> \o rest
          ELSE rest

\* [ok, out]: ok = FALSE when re.compile raises
phrase_matches(pattern, phrases, forbidden_letters) ==
  LET rx == re_compile(pattern_to_regex(pattern, {}))
  IN IF ~rx.ok THEN [ok |-> FALSE, out |-> <<>>]
     ELSE [ok |-> TRUE, out |-> phrase_filter(rx, pattern, phrases, forbidden_letters)]

(***************************************************************************)
(* MULTI-WORD SOLVER (words.txt)                                           *)
(***************************************************************************)
\* word_filter without the regular expression: length and forbidden letters only
RECURSIVE word_filter_unmatched(_, _, _, _)
word_filter_unmatched(rx, pattern_word, words, forbidden_letters) ==
  IF words = <<>> THEN <<>>
  ELSE LET w == Head(words)
           rest == word_filter_unmatched(rx, pattern_word, Tail(words), forbidden_letters)
       IN IF Len(w) # Len(pattern_word) THEN rest
          ELSE IF forbidden_free(pattern_word, w, forbidden_letters) THEN <<w>> \o rest
          ELSE rest

RECURSIVE word_filter(_, _, _, _)
word_filter(rx, pattern_word, words, forbidden_letters) ==
  IF words = <<>> THEN <<>>
  ELSE LET w == Head(words)
           rest == word_filter(rx, pattern_word, Tail(words), forbidden_letters)
       IN IF Len(w) # Len(pattern_word) THEN rest
          ELSE IF ~re_match(rx, w) THEN rest
          ELSE IF forbidden_free(pattern_word, w, forbidden_letters) THEN <<w>> \o rest
          ELSE rest

match_words(words, pattern_word, forbidden_letters) ==
  LET rx == re_compile(pattern_to_regex(pattern_word, {}))
  IN IF ~rx.ok THEN [ok |-> FALSE, out |-> <<>>]
     ELSE [ok |-> TRUE, out |-> word_filter(rx, pattern_word, words, forbidden_letters)]

\* itertools.product(*lists) as a list of tuples, the last list varying fastest
RECURSIVE product(_)
product(lists) ==
  IF lists = <<>> THEN << <<>> >>
  ELSE LET rest == product(Tail(lists))
           RECURSIVE each(_)
           each(xs) ==
             IF xs = <<>> THEN <<>>
             ELSE [j \in 1..Len(rest) |-> <<Head(xs)>> \o rest[j]] \o each(Tail(xs))
       IN each(Head(lists))

RECURSIVE match_parts(_, _, _, _, _)

\* match_parts that skips a part without matches instead of giving up
match_parts_skipping(parts, i, words, forbidden_letters, candidate_lists) ==
  IF i > Len(parts) THEN [ok |-> TRUE, empty |-> FALSE, lists |-> candidate_lists]
  ELSE LET matches == match_words(words, parts[i], forbidden_letters)
       IN IF ~matches.ok THEN [ok |-> FALSE, empty |-> FALSE, lists |-> <<>>]
          ELSE IF matches.out = <<>>
          THEN match_parts(parts, i + 1, words, forbidden_letters, candidate_lists)
          ELSE match_parts(parts, i + 1, words, forbidden_letters,
                           Append(candidate_lists, matches.out))

\* the loop of lines 125-129 from part i on
match_parts(parts, i, words, forbidden_letters, candidate_lists) ==
  IF i > Len(parts) THEN [ok |-> TRUE, empty |-> FALSE, lists |-> candidate_lists]
  ELSE LET matches == match_words(words, parts[i], forbidden_letters)
       IN IF ~matches.ok THEN [ok |-> FALSE, empty |-> FALSE, lists |-> <<>>]
          ELSE IF matches.out = <<>> THEN [ok |-> TRUE, empty |-> TRUE, lists |-> <<>>]
          ELSE match_parts(parts, i + 1, words, forbidden_letters,
                           Append(candidate_lists, matches.out))

solve_pattern(pattern, words, forbidden_letters) ==
  LET parts == split(pattern)
      m == match_parts(parts, 1, words, forbidden_letters, <<>>)
      prod == product(m.lists)
  IN IF ~m.ok THEN [ok |-> FALSE, out |-> <<>>]
     ELSE IF m.empty THEN [ok |-> TRUE, out |-> <<>>]
     ELSE [ok |-> TRUE, out |-> [j \in 1..Len(prod) |-> join(prod[j])]]

(***************************************************************************)
(* RANKING & NEXT-GUESS                                                    *)
(***************************************************************************)
\* list.sort(key=second item, reverse=True): a stable sort, largest first:
\* the pairs with the largest key in their original order, then the rest
RECURSIVE sort_desc(_)

\* sort_desc without reverse=True: a stable sort, smallest first
RECURSIVE sort_asc(_)
sort_asc(pairs) ==
  IF pairs = <<>> THEN <<>>
  ELSE LET m == CHOOSE v \in {pairs[i][2] : i \in 1..Len(pairs)} :
                  \A i \in 1..Len(pairs) : pairs[i][2] >= v
           IsLow(p) == p[2] = m
           IsRest(p) == p[2] # m
       IN SelectSeq(pairs, IsLow) \o sort_asc(SelectSeq(pairs, IsRest))

sort_desc(pairs) ==
  IF pairs = <<>> THEN <<>>
  ELSE LET m == CHOOSE v \in {pairs[i][2] : i \in 1..Len(pairs)} :
                  \A i \in 1..Len(pairs) : pairs[i][2] <= v
           IsTop(p) == p[2] = m
           IsRest(p) == p[2] # m
       IN SelectSeq(pairs, IsTop) \o sort_desc(SelectSeq(pairs, IsRest))

\* Counter("ETAOINSHRDLU")
freq == {"E", "T", "A", "O", "I", "N", "S", "H", "R", "D", "L", "U"}

PhraseBonus == 100

RECURSIVE letter_score(_)
letter_score(s) ==
  IF s = <<>> THEN 0
  ELSE (IF Head(s) \in freq THEN 1 ELSE 0) + letter_score(Tail(s))

solution_score(s, phrase_set) ==
  letter_score(s) + (IF phrase_set # {} /\ s \in phrase_set THEN PhraseBonus ELSE 0)

\* rank_solutions that forgets to sort
rank_solutions_unsorted(solutions, phrase_set) == solutions

rank_solutions(solutions, phrase_set) ==
  LET ranked == [i \in 1..Len(solutions) |->
                   <<solutions[i], solution_score(solutions[i], phrase_set)>>]
      srt == sort_desc(ranked)
  IN [i \in 1..Len(srt) |-> srt[i][1]]

\* weights are multiples of 1/WeightUnit; int(w) truncates towards zero
WeightUnit == 2

int_of(w) == IF w >= 0 THEN w \div WeightUnit ELSE -((-w) \div WeightUnit)

PhraseFactor == 10

Penalty == -1

\* a Counter is the list of its (key, count) pairs in insertion order
counter_has(counts, ch) == \E i \in 1..Len(counts) : counts[i][1] = ch

\* counter_add that leaves the counter alone when the increment is zero
counter_add_nonzero(counts, ch, d) ==
  IF d = 0 THEN counts
  ELSE IF counter_has(counts, ch)
  THEN [i \in 1..Len(counts) |->
          IF counts[i][1] = ch THEN <<ch, counts[i][2] + d>> ELSE counts[i]]
  ELSE Append(counts, <<ch, d>>)

\* counts[ch] += d (lines 170 and 172): a missing key is created, also by d = 0
counter_add(counts, ch, d) ==
  IF counter_has(counts, ch)
  THEN [i \in 1..Len(counts) |->
          IF counts[i][1] = ch THEN <<ch, counts[i][2] + d>> ELSE counts[i]]
  ELSE Append(counts, <<ch, d>>)

RECURSIVE count_chars(_, _, _, _, _, _)

\* count_chars where the phrase bonus replaces the base credit
count_chars_replacing(s, i, w, attempted, phrase_set, counts) ==
  IF i > Len(s) THEN counts
  ELSE LET ch == s[i] IN
    IF ch \in Letters /\ ch \notin attempted
    THEN count_chars(s, i + 1, w, attempted, phrase_set,
           counter_add(counts, ch,
             IF s \in phrase_set THEN int_of(w) * PhraseFactor ELSE int_of(w)))
    ELSE count_chars(s, i + 1, w, attempted, phrase_set, counts)

\* the loop of lines 168-172 over the characters of s from position i on
count_chars(s, i, w, attempted, phrase_set, counts) ==
  IF i > Len(s) THEN counts
  ELSE LET ch == s[i] IN
    IF ch \in Letters /\ ch \notin attempted
    THEN LET c1 == counter_add(counts, ch, int_of(w))
             c2 == IF s \in phrase_set
                   THEN counter_add(c1, ch, int_of(w) * PhraseFactor)
                   ELSE c1
         IN count_chars(s, i + 1, w, attempted, phrase_set, c2)
    ELSE count_chars(s, i + 1, w, attempted, phrase_set, counts)

\* the loop of line 167 over zip(solutions, weights) from index k on
RECURSIVE count_solutions(_, _, _, _, _, _)
count_solutions(solutions, weights, k, attempted, phrase_set, counts) ==
  IF k > Len(solutions) \/ k > Len(weights) THEN counts
  ELSE count_solutions(solutions, weights, k + 1, attempted, phrase_set,
         count_chars(solutions[k], 1, weights[k], attempted, phrase_set, counts))

\* add_absent that also adds the attempted letters
add_absent_all(counts, attempted) ==
  LET IsAbsent(p) == ~(\E i \in 1..Len(counts) : counts[i][1] = p[1])
  IN counts \o SelectSeq([k \in 1..Len(ascii_uppercase) |-> <<ascii_uppercase[k], -1>>],
                         IsAbsent)

\* the loop of lines 175-177: every letter of the alphabet that is neither
\* attempted nor a key of counts is added, in alphabet order
add_absent(counts, attempted) ==
  LET IsAbsent(p) == p[1] \notin attempted /\ ~counter_has(counts, p[1])
  IN counts \o SelectSeq([k \in 1..Len(ascii_uppercase) |-> <<ascii_uppercase[k], Penalty>>],
                         IsAbsent)

\* weights: [given |-> FALSE] is None
recommend_next_letter(solutions, attempted, weights, phrase_set) ==
  LET ws == IF weights.given THEN weights.items
            ELSE [i \in 1..Len(solutions) |-> WeightUnit]
      counts == count_solutions(solutions, ws, 1, attempted, phrase_set, <<>>)
  IN sort_desc(add_absent(counts, attempted))

(***************************************************************************)
(* MAIN SOLVER FUNCTION                                                    *)
(***************************************************************************)
NoWeights == [given |-> FALSE, items |-> <<>>]

Raised == [status |-> "error", solutions |-> <<>>, ranked |-> <<>>,
           next_letter |-> <<>>, attempted |-> {}]

\* wof_solver that returns no recommendation when there is no candidate
wof_solver_silent(pattern0, attempted_letters, wfile, pfile) ==
  LET pattern == upper(pattern0)
      attempted == extract_attempted_letters(pattern, attempted_letters)
      words == load_list(wfile)
      phrases == load_list(pfile)
      phrase_set == set_of(phrases)
      forbidden == {pattern[i] : i \in {j \in 1..Len(pattern) : pattern[j] \in Letters}}
                     \cup attempted
      pm == phrase_matches(pattern, phrases, forbidden)
      word_based == solve_pattern(pattern, words, forbidden)
      all_solutions == sorted(set_of(pm.out) \cup set_of(word_based.out))
      ranked == rank_solutions(all_solutions, phrase_set)
  IN IF ~pm.ok \/ ~word_based.ok THEN Raised
     ELSE IF all_solutions = <<>>
     THEN [status |-> "ok", solutions |-> <<>>, ranked |-> <<>>,
           next_letter |-> <<>>, attempted |-> attempted]
     ELSE [status |-> "ok", solutions |-> all_solutions, ranked |-> ranked,
           next_letter |-> recommend_next_letter(ranked, attempted, NoWeights, phrase_set),
           attempted |-> attempted]

wof_solver(pattern0, attempted_letters, wfile, pfile) ==
  LET pattern == upper(pattern0)
      attempted == extract_attempted_letters(pattern, attempted_letters)
      words == load_list(wfile)
      phrases == load_list(pfile)
      phrase_set == set_of(phrases)
      forbidden == {pattern[i] : i \in {j \in 1..Len(pattern) : pattern[j] \in Letters}}
                     \cup attempted
      pm == phrase_matches(pattern, phrases, forbidden)
      word_based == solve_pattern(pattern, words, forbidden)
      all_solutions == sorted(set_of(pm.out) \cup set_of(word_based.out))
      ranked == rank_solutions(all_solutions, phrase_set)
  IN IF ~pm.ok \/ ~word_based.ok THEN Raised
     ELSE IF all_solutions = <<>>
     THEN [status |-> "ok", solutions |-> <<>>, ranked |-> <<>>,
           next_letter |-> recommend_next_letter(<<>>, attempted, NoWeights, phrase_set),
           attempted |-> attempted]
     ELSE [status |-> "ok", solutions |-> all_solutions, ranked |-> ranked,
           next_letter |-> recommend_next_letter(ranked, attempted, NoWeights, phrase_set),
           attempted |-> attempted]

(***************************************************************************)
(* Inputs of the model.                                                    *)
(***************************************************************************)
SeqsUpTo(S, n) == UNION {[1..k -> S] : k \in 0..n}

PatternChars == {"A", "_", " "}

\* a lowercase letter, and punctuation a pattern may carry
OddChars == {"a", ".", "(", "'"}

Patterns ==
  SeqsUpTo(PatternChars, MaxLen) \cup
  {p \in SeqsUpTo({"_"} \cup OddChars, MaxOddLen) : \E i \in 1..Len(p) : p[i] \in OddChars}

None == [given |-> FALSE, items |-> <<>>]

AttemptedArgs == {None, [given |-> TRUE, items |-> <<"x">>],
                  [given |-> TRUE, items |-> <<"A", "t">>]}

\* lines a words.txt is made of, in file order
WordLines == << <<"A">>, <<"T">>, <<"A", "T">>, <<" ", "a", "t">>,
                <<"A", "X">>, <<"A", "'">>, <<" ">> >>

\* lines a phrases.txt is made of, in file order
PhraseLines == << <<"A", " ", "T">>, <<"a", "x">> >>

\* the lines of master with an index in sel, in order
RECURSIVE pick(_, _, _)
pick(master, sel, i) ==
  IF i > Len(master) THEN <<>>
  ELSE (IF i \in sel THEN <<master[i]>> ELSE <<>>) \o pick(master, sel, i + 1)

Files(master, n) ==
  {Missing} \cup
  {[exists |-> TRUE, lines |-> pick(master, sel, 1)] :
     sel \in {x \in SUBSET (1..Len(master)) : Cardinality(x) <= n}}

(***************************************************************************)
(* The program: test() of wof_solver3_test.py calls wof_solver and prints. *)
(***************************************************************************)
NoCall == [pattern |-> <<>>, attempted_letters |-> None]

NoResult == [status |-> "none", solutions |-> <<>>, ranked |-> <<>>,
             next_letter |-> <<>>, attempted |-> {}]

NoSaved == [set |-> FALSE, call |-> NoCall, result |-> NoResult,
            words_file |-> Missing, phrases_file |-> Missing]

NoRecCall == [solutions |-> <<>>, attempted |-> {}, weights |-> NoWeights, phrase_set |-> {}]

NoRxCall == [pattern |-> <<>>, forbidden_letters |-> {}, target |-> <<>>,
             regex |-> <<>>, accepted |-> FALSE]

Init ==
  /\ words_file \in Files(WordLines, MaxWords)
  /\ phrases_file \in Files(PhraseLines, MaxPhrases)
  /\ pc = "idle"
  /\ call = NoCall
  /\ result = NoResult
  /\ saved = NoSaved
  /\ rec_call = NoRecCall
  /\ rec_out = <<>>
  /\ rx_call = NoRxCall

\* solve_call that appends the solutions it found to words.txt
solve_call_learning(pats) ==
  /\ pc = "idle"
  /\ \E pattern \in pats, attempted_letters \in AttemptedArgs :
     \E r \in {wof_solver(pattern, attempted_letters, words_file, phrases_file)} :
          /\ call' = [pattern |-> pattern, attempted_letters |-> attempted_letters]
          /\ result' = r
          /\ pc' = IF r.status = "error" THEN "crashed" ELSE "returned"
          /\ words_file' = [exists |-> TRUE, lines |-> words_file.lines \o r.solutions]
  /\ UNCHANGED <<phrases_file, saved, rec_call, rec_out, rx_call>>

\* test() line 6: one call of wof_solver; an exception ends the program
solve_call(pats) ==
  /\ pc = "idle"
  /\ \E pattern \in pats, attempted_letters \in AttemptedArgs :
     \E r \in {wof_solver(pattern, attempted_letters, words_file, phrases_file)} :
          /\ call' = [pattern |-> pattern, attempted_letters |-> attempted_letters]
          /\ result' = r
          /\ pc' = IF r.status = "error" THEN "crashed" ELSE "returned"
  /\ UNCHANGED <<words_file, phrases_file, saved, rec_call, rec_out, rx_call>>

\* test() lines 8-20: the result is printed and dropped.  With noted, what
\* was printed may be remembered (in saved) for comparison with later calls.
print_result(noted) ==
  /\ pc = "returned"
  /\ pc' = "idle"
  /\ call' = NoCall
  /\ result' = NoResult
  /\ rec_call' = NoRecCall
  /\ rec_out' = <<>>
  /\ rx_call' = NoRxCall
  /\ saved' \in IF noted /\ result.status = "ok"
                THEN {saved, [set |-> TRUE, call |-> call, result |-> result,
                              words_file |-> words_file, phrases_file |-> phrases_file]}
                ELSE {saved}
  /\ UNCHANGED <<words_file, phrases_file>>

test_call == solve_call(Patterns)

test_print == print_result(FALSE)

Next == test_call \/ test_print

Spec == Init /\ [][Next]_vars

(***************************************************************************)
(* Repeated calls: a printed result may be remembered and compared with    *)
(* the results of later calls.                                             *)
(***************************************************************************)
ProbePatterns == {<<>>, <<"_">>, <<"A", "_">>, <<"_", "_">>, <<"_", " ", "_">>}

test_call_again == solve_call(ProbePatterns)

test_print_noted == print_result(TRUE)

NextIdem == test_call_again \/ test_print_noted

SpecIdem == Init /\ [][NextIdem]_vars

(***************************************************************************)
(* recommend_next_letter called on its own, with explicit weights.         *)
(***************************************************************************)
\* most candidates passed to recommend_next_letter
MaxCands == 2

CandPool == {<<"A", "T">>, <<"A", "X">>, <<"T", "T">>, <<"A", " ", "T">>}

\* 0, a fraction below 1, 1.0, and a fraction above 2
WeightVals == {0, 1, WeightUnit, 2 * WeightUnit + 1}

WeightArgs(n) == {NoWeights} \cup {[given |-> TRUE, items |-> ws] : ws \in [1..n -> WeightVals]}

InitRec ==
  /\ words_file = Missing
  /\ phrases_file = Missing
  /\ pc = "idle"
  /\ call = NoCall
  /\ result = NoResult
  /\ saved = NoSaved
  /\ rec_call = NoRecCall
  /\ rec_out = <<>>
  /\ rx_call = NoRxCall

recommend_call ==
  /\ pc = "idle"
  /\ \E solutions \in SeqsUpTo(CandPool, MaxCands),
        attempted \in {{}, {"A"}, {"T", "X"}},
        phrase_set \in SUBSET {<<"A", "T">>, <<"A", " ", "T">>} :
       \E weights \in WeightArgs(Len(solutions)) :
         /\ rec_call' = [solutions |-> solutions, attempted |-> attempted,
                         weights |-> weights, phrase_set |-> phrase_set]
         /\ rec_out' = recommend_next_letter(solutions, attempted, weights, phrase_set)
  /\ pc' = "returned"
  /\ UNCHANGED <<words_file, phrases_file, call, result, saved, rx_call>>

NextRec == recommend_call \/ test_print

SpecRec == InitRec /\ [][NextRec]_vars

(***************************************************************************)
(* Vocabulary of the properties.                                           *)
(***************************************************************************)
\* a wof_solver call has returned normally
Returned == pc = "returned" /\ result.status = "ok"

\* the pattern as the solver sees it
P == upper(call.pattern)

Words == set_of(load_list(words_file))

Phrases == set_of(load_list(phrases_file))

\* letters, underscores and spaces only
PlainPattern(p) == \A i \in 1..Len(p) : p[i] \in Letters \cup {"_", " "}

\* words separated by single spaces
SingleSpaced(p) ==
  /\ p # <<>> => p[1] # " " /\ p[Len(p)] # " "
  /\ \A i \in 1..(Len(p) - 1) : ~(p[i] = " " /\ p[i + 1] = " ")

ValidPattern(p) == PlainPattern(p) /\ SingleSpaced(p)

\* s fills pat: same length, fixed cells equal, unknown cells hold a letter
\* outside forb
Fits(pat, s, forb) ==
  /\ Len(s) = Len(pat)
  /\ \A i \in 1..Len(pat) :
       IF pat[i] = "_" THEN s[i] \in Letters \ forb ELSE s[i] = pat[i]

\* C1: for a pattern of letters, underscores and single separating spaces,
\* every solution has as many words as the pattern, each word as long as its
\* pattern segment, and every fixed letter of the pattern at its position.
C1_SolutionsKeepShape ==
  (Returned /\ ValidPattern(P)) =>
    \A n \in 1..Len(result.solutions) :
      LET c == result.solutions[n] IN
        /\ Len(split(c)) = Len(split(P))
        /\ \A k \in 1..Len(split(P)) : Len(split(c)[k]) = Len(split(P)[k])
        /\ Len(c) = Len(P)
        /\ \A i \in 1..Len(P) : P[i] \in Letters => c[i] = P[i]

\* a two-word pattern with a fixed letter and an unknown cell has a solution
C1_Witness ==
  /\ Returned /\ ValidPattern(P)
  /\ Len(split(P)) = 2
  /\ \E i \in 1..Len(P) : P[i] \in Letters
  /\ \E i \in 1..Len(P) : P[i] = "_"
  /\ result.solutions # <<>>

\* C2: no underscore position of the pattern holds an attempted letter in a
\* solution, from the phrase path or the word path; a corpus phrase whose
\* unknown cells are free of attempted letters is a solution although its fixed
\* cells hold attempted letters.
C2_NoAttemptedInUnknownCells ==
  (Returned /\ ValidPattern(P)) =>
    /\ \A n \in 1..Len(result.solutions) :
         \A i \in 1..Len(P) :
           P[i] = "_" => result.solutions[n][i] \notin result.attempted
    /\ \A p \in Phrases :
         Fits(P, p, result.attempted) => p \in set_of(result.solutions)
    /\ \A i \in 1..Len(P) : P[i] \in Letters => P[i] \in result.attempted

\* a corpus word and a corpus phrase are turned down for an attempted letter in
\* an unknown cell, while a solution with a fixed attempted letter is returned
C2_Witness ==
  /\ Returned /\ ValidPattern(P)
  /\ \E w \in Words : Fits(P, w, {}) /\ ~Fits(P, w, result.attempted)
  /\ \E p \in Phrases : Fits(P, p, {}) /\ ~Fits(P, p, result.attempted)
  /\ \E n \in 1..Len(result.solutions) :
       \E i \in 1..Len(P) : P[i] \in Letters /\ result.solutions[n][i] \in result.attempted

\* the phrases of the corpus that fill the whole pattern
PhraseCandidates == {p \in Phrases : Fits(P, p, result.attempted)}

\* one corpus word for every segment of the pattern, each filling its segment,
\* joined by single spaces
WordCandidates ==
  LET parts == split(P)
      picks == {f \in [1..Len(parts) -> Words] :
                  \A k \in 1..Len(parts) : Fits(parts[k], f[k], result.attempted)}
  IN {join(f) : f \in picks}

NoDuplicates(xs) == \A i, j \in 1..Len(xs) : xs[i] = xs[j] => i = j

\* C3: solutions is the duplicate-free union of the matching corpus phrases and
\* the space-joined cartesian product of the per-segment matching words (empty
\* when a segment has no matching word), also for a corpus with duplicates.
C3_SolutionsAreExactlyBothPaths ==
  (Returned /\ PlainPattern(P)) =>
    /\ set_of(result.solutions) = PhraseCandidates \cup WordCandidates
    /\ NoDuplicates(result.solutions)
    /\ (\E k \in 1..Len(split(P)) : \A w \in Words : ~Fits(split(P)[k], w, result.attempted))
         => set_of(result.solutions) = PhraseCandidates

\* a word corpus with a duplicate entry; a phrase and a composed candidate,
\* different from each other, are both returned
C3_Witness ==
  /\ Returned /\ PlainPattern(P)
  /\ Len(load_list(words_file)) > Cardinality(Words)
  /\ PhraseCandidates \ WordCandidates # {}
  /\ WordCandidates \ PhraseCandidates # {}

\* the twelve letters of the ranking
Twelve == {"E", "T", "A", "O", "I", "N", "S", "H", "R", "D", "L", "U"}

Score(c) ==
  Cardinality({i \in 1..Len(c) : c[i] \in Twelve}) + (IF c \in Phrases THEN 100 ELSE 0)

\* C4: ranked is a permutation of solutions, ordered by non-increasing score
\* (characters among the twelve letters, plus 100 for a phrase-corpus entry).
C4_RankedIsSortedPermutation ==
  Returned =>
    /\ Len(result.ranked) = Len(result.solutions)
    /\ set_of(result.ranked) = set_of(result.solutions)
    /\ NoDuplicates(result.ranked)
    /\ \A i \in 1..(Len(result.ranked) - 1) :
         Score(result.ranked[i]) >= Score(result.ranked[i + 1])

\* ranking moves a phrase-corpus entry ahead of a candidate that sorts before it
C4_Witness ==
  /\ Returned
  /\ Len(result.ranked) >= 2
  /\ result.ranked # result.solutions
  /\ result.ranked[1] \in Phrases
  /\ Score(result.ranked[1]) > Score(result.ranked[2])

\* C5: next_letter holds each letter outside the attempted set exactly once,
\* holds no attempted letter, and is ordered by non-increasing weight.
C5_NextLetterCoversUnattempted ==
  Returned =>
    LET nl == result.next_letter IN
      /\ {nl[i][1] : i \in 1..Len(nl)} = Letters \ result.attempted
      /\ \A i, j \in 1..Len(nl) : nl[i][1] = nl[j][1] => i = j
      /\ \A i \in 1..(Len(nl) - 1) : nl[i][2] >= nl[i + 1][2]

\* letters were attempted, some letter occurs in a candidate and some in none
C5_Witness ==
  /\ Returned
  /\ result.attempted # {}
  /\ \E i \in 1..Len(result.next_letter) : result.next_letter[i][2] > 0
  /\ \E i \in 1..Len(result.next_letter) : result.next_letter[i][2] < 0
  /\ \E a \in result.attempted, n \in 1..Len(result.solutions) :
       \E i \in 1..Len(result.solutions[n]) : result.solutions[n][i] = a

Ended == result.status # "none"

\* some segment of the pattern has a length no corpus word has, and no corpus
\* phrase has the length of the pattern
NoCorpusShape ==
  /\ \A p \in Phrases : Len(p) # Len(P)
  /\ \E k \in 1..Len(split(P)) : \A w \in Words : Len(w) # Len(split(P)[k])

\* C7: for an empty pattern, and for a pattern whose shape no corpus entry has,
\* wof_solver returns empty solutions and an empty ranked list, without an error.
C7_EmptyOrShapelessYieldsNothing ==
  (Ended /\ PlainPattern(P) /\ (P = <<>> \/ NoCorpusShape)) =>
    /\ result.status = "ok"
    /\ result.solutions = <<>>
    /\ result.ranked = <<>>

\* C8: a pattern character that is neither a letter, an underscore nor a space
\* is a literal: every solution holds that very character at that position,
\* and the call signals no error.
C8_OtherCharactersAreLiteral ==
  (Ended /\ SingleSpaced(P)) =>
    /\ result.status = "ok"
    /\ \A n \in 1..Len(result.solutions) :
         \A i \in 1..Len(P) :
           P[i] \notin Letters \cup {"_", " "} =>
             i <= Len(result.solutions[n]) /\ result.solutions[n][i] = P[i]

GivenAttempted ==
  IF call.attempted_letters.given
  THEN {upper_char(call.attempted_letters.items[i]) :
          i \in 1..Len(call.attempted_letters.items)}
  ELSE {}

FixedLetters == {P[i] : i \in {j \in 1..Len(P) : P[j] \in Letters}}

\* C9: the attempted-letter set is the supplied letters, uppercased, united
\* with the fixed letters of the uppercased pattern (the fixed letters alone
\* when none is supplied), and none of its letters is in next_letter.
C9_AttemptedIsGivenAndFixed ==
  Returned =>
    /\ result.attempted = GivenAttempted \cup FixedLetters
    /\ ~call.attempted_letters.given => result.attempted = FixedLetters
    /\ \A i \in 1..Len(result.next_letter) :
         result.next_letter[i][1] \notin GivenAttempted \cup FixedLetters

\* a lowercase letter is supplied, the pattern (given in lowercase) has a
\* fixed letter that is not supplied, and there is a solution
C9_Witness ==
  /\ Returned
  /\ call.attempted_letters.given
  /\ \E i \in 1..Len(call.attempted_letters.items) :
       upper_char(call.attempted_letters.items[i]) # call.attempted_letters.items[i]
  /\ FixedLetters \ GivenAttempted # {}
  /\ call.pattern # P
  /\ result.solutions # <<>>

\* recommend_next_letter, called on its own, has returned
RecReturned == pc = "returned" /\ result.status = "none"

Occurrences(L, s) == Cardinality({i \in 1..Len(s) : s[i] = L})

\* the integer weight of candidate k
IntWeight(k) ==
  IF rec_call.weights.given THEN rec_call.weights.items[k] \div WeightUnit ELSE 1

\* the weight letter L gets from the first k candidates
RECURSIVE Accumulated(_, _)
Accumulated(L, k) ==
  IF k = 0 THEN 0
  ELSE Accumulated(L, k - 1)
       + Occurrences(L, rec_call.solutions[k]) * IntWeight(k)
         * (IF rec_call.solutions[k] \in rec_call.phrase_set THEN 11 ELSE 1)

\* C10: an unattempted letter that occurs in a candidate is reported with the
\* sum, over the candidates and its occurrences in them, of the candidate's
\* integer weight, taken 11 times for a candidate of the phrase corpus; the
\* default weight is 1.
C10_WeightIsSumOverOccurrences ==
  RecReturned =>
    \A L \in Letters \ rec_call.attempted :
      (\E k \in 1..Len(rec_call.solutions) : Occurrences(L, rec_call.solutions[k]) > 0) =>
        /\ \E i \in 1..Len(rec_out) :
             rec_out[i] = <<L, Accumulated(L, Len(rec_call.solutions))>>
        /\ \A i \in 1..Len(rec_out) :
             rec_out[i][1] = L => rec_out[i][2] = Accumulated(L, Len(rec_call.solutions))

\* a letter occurs in a phrase-corpus candidate of integer weight 2 and twice
\* in a candidate outside the phrase corpus
C10_Witness ==
  /\ RecReturned
  /\ rec_call.weights.given
  /\ \E L \in Letters \ rec_call.attempted :
       \E k, j \in 1..Len(rec_call.solutions) :
         /\ rec_call.solutions[k] \in rec_call.phrase_set
         /\ IntWeight(k) = 2
         /\ Occurrences(L, rec_call.solutions[k]) = 1
         /\ rec_call.solutions[j] \notin rec_call.phrase_set
         /\ IntWeight(j) = 1
         /\ Occurrences(L, rec_call.solutions[j]) = 2

(***************************************************************************)
(* pattern_to_regex called on its own with a forbidden set, and its result *)
(* compiled and matched against a string as phrase_matches does.           *)
(***************************************************************************)
\* longest pattern and longest string of a direct call
MaxRxLen == 2

RxPatterns == SeqsUpTo({"A", "_", " "}, MaxRxLen)

RxForbidden == {{}, {"X"}, {"A", "X"}}

RxTargets == SeqsUpTo({"A", "T", "X", "^", " "}, MaxRxLen)

\* regex = re.compile(pattern_to_regex(pattern, forbidden_letters));
\* regex.match(target)
regex_call ==
  /\ pc = "idle"
  /\ \E pattern \in RxPatterns, forbidden_letters \in RxForbidden, target \in RxTargets :
       \E rx \in {pattern_to_regex(pattern, forbidden_letters)} :
         rx_call' = [pattern |-> pattern, forbidden_letters |-> forbidden_letters,
                     target |-> target, regex |-> rx,
                     accepted |-> LET c == re_compile(rx) IN c.ok /\ re_match(c, target)]
  /\ pc' = "returned"
  /\ UNCHANGED <<words_file, phrases_file, call, result, saved, rec_call, rec_out>>

NextRx == regex_call \/ test_print

SpecRx == InitRec /\ [][NextRx]_vars

(***************************************************************************)
(* C11: the penalty of recommend_next_letter                               *)
(***************************************************************************)
\* letter L occurs in a candidate that the loop of line 167 processes
OccursInCandidate(L) ==
  \E k \in 1..Len(rec_call.solutions) : Occurrences(L, rec_call.solutions[k]) > 0

ReportedWeights(L) == {rec_out[i][2] : i \in {j \in 1..Len(rec_out) : rec_out[j][1] = L}}

\* C11 as stated: every unattempted letter whose accumulated weight is zero
\* after all candidates are processed is reported with weight -1, and no
\* unattempted letter is reported with weight 0.
C11_ZeroWeightIsReportedAsPenalty ==
  RecReturned =>
    \A L \in Letters \ rec_call.attempted :
      /\ Accumulated(L, Len(rec_call.solutions)) = 0 => ReportedWeights(L) = {Penalty}
      /\ 0 \notin ReportedWeights(L)

\* C11, amended: an unattempted letter is reported with weight -1 exactly when
\* it occurs in no candidate; a letter that occurs in a candidate is reported
\* with its accumulated weight, which is 0 when every candidate holding it
\* has an integer weight of 0; with the default weights no letter is reported
\* with weight 0.
C11_PenaltyIsForLettersInNoCandidate ==
  RecReturned =>
    \A L \in Letters \ rec_call.attempted :
      /\ ~OccursInCandidate(L) => ReportedWeights(L) = {Penalty}
      /\ OccursInCandidate(L) =>
           /\ ReportedWeights(L) # {Penalty}
           /\ (\A k \in 1..Len(rec_call.solutions) :
                 Occurrences(L, rec_call.solutions[k]) > 0 => IntWeight(k) = 0)
              => ReportedWeights(L) = {0}
      /\ ~rec_call.weights.given => 0 \notin ReportedWeights(L)

\* a call with weights where one unattempted letter occurs only in candidates
\* of integer weight 0 and is reported with 0, a second one occurs in a
\* candidate of integer weight 1, and a third occurs in none
C11_Witness ==
  /\ RecReturned
  /\ rec_call.weights.given
  /\ \E L, M, N \in Letters \ rec_call.attempted :
       /\ OccursInCandidate(L) /\ ReportedWeights(L) = {0}
       /\ OccursInCandidate(M) /\ ReportedWeights(M) = {1}
       /\ ~OccursInCandidate(N) /\ ReportedWeights(N) = {Penalty}

(***************************************************************************)
(* C12: letters of the candidates come first in next_letter                *)
(***************************************************************************)
\* letter L occurs in at least one candidate of the returned solutions
InSolutions(L) ==
  \E k \in 1..Len(result.solutions) : Occurrences(L, result.solutions[k]) > 0

\* the positions of next_letter that hold letter L
ListedAt(L) == {i \in 1..Len(result.next_letter) : result.next_letter[i][1] = L}

\* C12: in the next_letter returned by wof_solver, every unattempted letter
\* that occurs in a candidate of solutions is listed before every unattempted
\* letter that occurs in no candidate, and attempted letters are not listed.
C12_CandidateLettersComeFirst ==
  Returned =>
    /\ \A L, M \in Letters \ result.attempted :
         InSolutions(L) /\ ~InSolutions(M) =>
           /\ ListedAt(L) # {} /\ ListedAt(M) # {}
           /\ \A i \in ListedAt(L), j \in ListedAt(M) : i < j
    /\ \A L \in result.attempted : ListedAt(L) = {}

\* a pattern with a fixed letter and two candidates: two unattempted letters
\* of the candidates head the list, a letter of no candidate follows, and the
\* fixed letter is not listed
C12_Witness ==
  /\ Returned
  /\ Len(result.solutions) >= 2
  /\ \E i \in 1..Len(P) : P[i] \in Letters /\ ListedAt(P[i]) = {}
  /\ Len(result.next_letter) >= 3
  /\ InSolutions(result.next_letter[1][1])
  /\ InSolutions(result.next_letter[2][1])
  /\ ~InSolutions(result.next_letter[3][1])

(***************************************************************************)
(* C13: the result when there is no candidate                              *)
(***************************************************************************)
\* neither path has a candidate for a pattern of letters, "_" and spaces
NoCandidate == PlainPattern(P) /\ PhraseCandidates = {} /\ WordCandidates = {}

\* the unattempted letters in alphabet order, each with weight -1
AllPenalised ==
  LET Unattempted(p) == p[1] \notin result.attempted
  IN SelectSeq([k \in 1..Len(ascii_uppercase) |-> <<ascii_uppercase[k], -1>>], Unattempted)

\* C13: whenever wof_solver generates no candidate, it returns solutions = [],
\* ranked = [] and a next_letter that lists every unattempted letter with
\* weight -1 (all 26 letters when none is attempted), in alphabet order.
C13_NoCandidateStillRecommends ==
  Returned /\ (NoCandidate \/ result.solutions = <<>>) =>
    /\ result.solutions = <<>>
    /\ result.ranked = <<>>
    /\ result.next_letter = AllPenalised
    /\ result.attempted = {} => Len(result.next_letter) = 26

\* a non-empty pattern over an empty word corpus and an empty phrase corpus,
\* nothing attempted: 26 letters are listed
C13_Witness ==
  /\ Returned
  /\ P # <<>>
  /\ Words = {} /\ Phrases = {}
  /\ result.attempted = {}
  /\ result.solutions = <<>>
  /\ Len(result.next_letter) = 26

(***************************************************************************)
(* C14: the matcher of pattern_to_regex                                    *)
(***************************************************************************)
RxReturned == pc = "returned" /\ rx_call.regex # <<>>

\* C14: the matcher compiled from pattern_to_regex(pattern, forbidden_letters)
\* accepts a string of the pattern's length if and only if every fixed cell
\* matches exactly and every underscore cell holds an uppercase letter that
\* is not in forbidden_letters.
C14_MatcherExcludesForbidden ==
  RxReturned /\ Len(rx_call.target) = Len(rx_call.pattern) =>
    (rx_call.accepted <=> Fits(rx_call.pattern, rx_call.target, rx_call.forbidden_letters))

====
